---- MODULE Spec2Model ----
(***************************************************************************)
(* Dynasty Dash (src/app.py): the button handler that fetches a Sleeper    *)
(* league, scrapes KeepTradeCut valuations, matches roster names against   *)
(* them and aggregates a value / age / contention summary.                 *)
(*                                                                         *)
(* Text is modelled as a sequence of one-character strings, so that        *)
(* strip / lower / split / replace / regex search are computed, character  *)
(* by character, as Python computes them.  Numbers parsed from text are    *)
(* exact fixed-point numbers: an integer count of 1/Scale units (the       *)
(* sample texts carry at most two decimals, and none of the letters        *)
(* of "e", "inf", "nan" or "_" that float() would also accept).            *)
(***************************************************************************)
EXTENDS Integers, Sequences, FiniteSets, TLC

\* ------------------------------------------------------------------ bounds

\* Longest player list of a roster returned by the league fetch.
MaxRoster == 2
\* Most player <div>s on a page of the sample valuation site.
MaxKtc == 2

\* ------------------------------------------------------- program constants

\* len(player_divs) < 50: a page shorter than this ends the scrape.
PageSize == 50
\* get_all_ktc_players_paginated(max_pages=10) at the call site.
CallMaxPages == 10
\* score > 80 accepts the fuzzy candidate.
FuzzyCutoff == 80
\* total_ktc > 110000 and avg_age > 25  =>  Contender
ContenderValue == 110000
ContenderAge == 25
\* total_ktc < 90000 and avg_age < 24  =>  Rebuild
RebuildValue == 90000
RebuildAge == 24
\* Parsed numbers are counted in hundredths.
Scale == 10 * 10

\* -------------------------------------------------------------------- text

Digits == {"0", "1", "2", "3", "4", "5", "6", "7", "8", "9"}

DigitVal(c) ==
    CASE c = "0" -> 0 [] c = "1" -> 1 [] c = "2" -> 2 [] c = "3" -> 3
      [] c = "4" -> 4 [] c = "5" -> 5 [] c = "6" -> 6 [] c = "7" -> 7
      [] c = "8" -> 8 [] c = "9" -> 9

\* str.isspace for the characters of the sample texts
IsSpace(c) == c \in {" ", "\t", "\n"}

\* str.lower, one character
LowerChar(c) ==
    CASE c = "A" -> "a" [] c = "B" -> "b" [] c = "C" -> "c" [] c = "D" -> "d"
      [] c = "K" -> "k" [] c = "L" -> "l" [] c = "N" -> "n" [] c = "O" -> "o"
      [] c = "U" -> "u" [] c = "Y" -> "y"
      [] OTHER -> c

Lower(s) == [k \in 1..Len(s) |-> LowerChar(s[k])]

RECURSIVE LStrip(_)
LStrip(s) == IF s # <<>> /\ IsSpace(Head(s)) THEN LStrip(Tail(s)) ELSE s

RECURSIVE RStrip(_)
RStrip(s) ==
    IF s # <<>> /\ IsSpace(s[Len(s)]) THEN RStrip(SubSeq(s, 1, Len(s) - 1)) ELSE s

\* str.strip()
Strip(s) == RStrip(LStrip(s))

\* str.split() with no separator: the maximal runs of non-space characters
RECURSIVE SplitFrom(_, _, _)
SplitFrom(s, cur, acc) ==
    IF s = <<>>
    THEN IF cur = <<>> THEN acc ELSE Append(acc, cur)
    ELSE IF IsSpace(Head(s))
         THEN SplitFrom(Tail(s), <<>>, IF cur = <<>> THEN acc ELSE Append(acc, cur))
         ELSE SplitFrom(Tail(s), Append(cur, Head(s)), acc)

Split(s) == SplitFrom(s, <<>>, <<>>)

\* str.replace(c, ""): every occurrence of the character removed
RECURSIVE RemoveChar(_, _)
RemoveChar(s, c) ==
    IF s = <<>> THEN <<>>
    ELSE IF Head(s) = c THEN RemoveChar(Tail(s), c)
         ELSE <<Head(s)>> \o RemoveChar(Tail(s), c)

\* the length of the longest prefix of s made of digits
RECURSIVE DigitRun(_)
DigitRun(s) == IF s # <<>> /\ Head(s) \in Digits THEN 1 + DigitRun(Tail(s)) ELSE 0

\* int() of a sequence of digits
RECURSIVE DigitsValue(_)
DigitsValue(s) ==
    IF s = <<>> THEN 0
    ELSE 10 * DigitsValue(SubSeq(s, 1, Len(s) - 1)) + DigitVal(s[Len(s)])

\* ----------------------------------------------------------------- numbers

\* Python's None, and a tag that the page does not hold: neither is a text.
None == <<"<None>">>
Absent == <<"<absent>">>
\* a player-name <div> without its <a>: name_tag.find("a") is None
NoAnchor == <<"<no-anchor>">>

IsText(v) == v \notin {None, Absent, NoAnchor}

\* the value, in 1/Scale units, of "int.frac" given as two digit sequences
DecimalValue(int, frac) ==
    DigitsValue(int) * Scale +
    DigitsValue(SubSeq(frac \o <<"0", "0">>, 1, 2))

\* float(t): [ok, val]; ok is FALSE where float raises ValueError
FloatOf(t) ==
    LET u == Strip(t)
        signed == u # <<>> /\ Head(u) \in {"+", "-"}
        body == IF signed THEN Tail(u) ELSE u
        sign == IF signed /\ Head(u) = "-" THEN -1 ELSE 1
        n == DigitRun(body)
        rest == SubSeq(body, n + 1, Len(body))
        hasDot == rest # <<>> /\ Head(rest) = "."
        fracAll == IF hasDot THEN Tail(rest) ELSE <<>>
        m == DigitRun(fracAll)
        wellFormed == /\ n + m > 0
                      /\ IF hasDot THEN m = Len(fracAll) ELSE rest = <<>>
    IN  IF wellFormed
        THEN [ok |-> TRUE,
              val |-> sign * DecimalValue(SubSeq(body, 1, n), fracAll)]
        ELSE [ok |-> FALSE, val |-> 0]

\* safe_float: commas stripped, float(); any exception (None has no
\* .replace, float raises on bad text) gives 0.0
safe_float(v) ==
    IF ~IsText(v) THEN 0
    ELSE LET r == FloatOf(RemoveChar(v, ",")) IN IF r.ok THEN r.val ELSE 0

\* re.search(r"(\d+(\.\d+)?)", s): the first digit run, with a fraction when
\* a "." and at least one digit follow it
RECURSIVE AgeSearch(_)
AgeSearch(s) ==
    IF s = <<>> THEN [ok |-> FALSE, val |-> 0]
    ELSE IF Head(s) \in Digits
         THEN LET n == DigitRun(s)
                  rest == SubSeq(s, n + 1, Len(s))
                  m == IF rest # <<>> /\ Head(rest) = "." THEN DigitRun(Tail(rest)) ELSE 0
              IN  [ok |-> TRUE,
                   val |-> DecimalValue(SubSeq(s, 1, n), SubSeq(rest, 2, m + 1))]
         ELSE AgeSearch(Tail(s))

\* parse_age: 0.0 for a non-string and for a text without a number
parse_age(age_str) ==
    IF ~IsText(age_str) THEN 0
    ELSE LET r == AgeSearch(age_str) IN IF r.ok THEN r.val ELSE 0

\* ------------------------------------------------------------ sample texts

T_Al == <<"A", "l">>
T_Bo == <<"B", "o">>
T_Cy == <<"C", "y">>
T_AlBo == <<"A", "l", " ", "B", "o">>
\* the same player, shouted and double-spaced: the same NormalizedKey
T_ALBO == <<"A", "L", " ", " ", "B", "O">>
T_WR == <<"W", "R">>
T_RB == <<"R", "B">>
T_Unknown == <<"U", "n", "k", "n", "o", "w", "n">>
T_NA == <<"N", "/", "A">>
T_NoneNone == <<"N", "o", "n", "e", " ", "N", "o", "n", "e">>
T_NoMatch == <<"N", "o", " ", "M", "a", "t", "c", "h">>
T_9500 == <<"9", ",", "5", "0", "0">>
T_1200 == <<"1", ",", "2", "0", "0">>
T_abc == <<"a", "b", "c">>
T_Age241 == <<"2", "4", ".", "1", " ", "y", ".", "o", ".">>
T_Age30 == <<"3", "0", " ", "y", ".", "o", ".">>

\* ---------------------------------------------------------- Sleeper players

\* The /players/nfl table: player_id -> first_name, last_name.  Player "3"
\* has blank names; player "9" is not in the table.
SleeperPids == {<<"1">>, <<"2">>, <<"3">>}
SleeperData ==
    [pid \in SleeperPids |->
        CASE pid = <<"1">> -> [first_name |-> T_Al, last_name |-> T_Bo]
          [] pid = <<"2">> -> [first_name |-> <<" ">> \o T_Cy, last_name |-> <<>>]
          [] OTHER -> [first_name |-> <<>>, last_name |-> <<>>]]
\* the ids that rosters hold
RosterPids == {<<"1">>, <<"2">>, <<"9">>}

\* get_sleeper_player_map: "first last" stripped, the id itself when blank
get_sleeper_player_map ==
    [pid \in DOMAIN SleeperData |->
        LET first == Strip(SleeperData[pid].first_name)
            last == Strip(SleeperData[pid].last_name)
            full_name == Strip(first \o <<" ">> \o last)
        IN  IF full_name = <<>> \/ full_name = T_NoneNone THEN pid ELSE full_name]

\* id_to_name: player_map.get(str(pid), f"Unknown ({pid})")
id_to_name(player_map, pid) ==
    IF pid \in DOMAIN player_map THEN player_map[pid]
    ELSE T_Unknown \o <<" ", "(">> \o pid \o <<")">>

\* ------------------------------------------------------------ Sleeper league

\* users of the league: user_id -> display_name
UsersData == [u \in {"u1", "u2"} |-> IF u = "u1" THEN "me" ELSE "rival"]
\* the name typed into the form
Username == "me"

SeqsUpTo(S, n) == UNION {[1..k -> S] : k \in 0..n}

\* "players" of a roster: a list of ids
PlayerLists == SeqsUpTo(RosterPids, MaxRoster)

\* a roster of the /rosters answer; players_null: its "players" is null
Roster(owner, players) == [owner_id |-> owner, players |-> players, players_null |-> FALSE]
NullRoster(owner) == [owner_id |-> owner, players |-> <<>>, players_null |-> TRUE]
RivalRoster == Roster("u2", <<<<"1">>>>)

\* what the /rosters request may answer
LeagueSet ==
    {<<>>, <<RivalRoster>>, <<Roster("u3", <<>>)>>, <<NullRoster("u1")>>}
    \cup {<<RivalRoster, Roster("u1", ps)>> : ps \in PlayerLists}

\* parse_rosters_into_dataframe: one row per roster, ids replaced by names
parse_rosters_into_dataframe(users_data, rosters, player_map) ==
    [r \in 1..Len(rosters) |->
        LET owner_id == rosters[r].owner_id
            \* roster.get("players") or []
            players == IF rosters[r].players_null THEN <<>> ELSE rosters[r].players
        IN  [Owner |-> IF owner_id \in DOMAIN users_data THEN users_data[owner_id]
                       ELSE "User " \o owner_id,
             Players |-> [k \in 1..Len(players) |-> id_to_name(player_map, players[k])]]]

\* ------------------------------------------------------------ KTC page divs

\* A <div class="onePlayer">: its data-attr and the texts of its child tags
\* (Absent: the tag is not there; NoAnchor: the name tag holds no <a>).
Div(rank, name, position, age, value) ==
    [rank |-> rank, name |-> name, position |-> position, age |-> age, value |-> value]

\* the body of the try block: does it raise?  (find("a") of the name tag is
\* None, so .text raises AttributeError and the div is skipped)
DivRaises(d) == d.name = NoAnchor

\* the record appended for a div that parses
DivRecord(d) ==
    [Rank |-> d.rank,
     Name |-> IF d.name = Absent THEN T_Unknown ELSE Strip(d.name),
     Position |-> IF d.position = Absent THEN T_Unknown ELSE Strip(d.position),
     Age |-> IF d.position = Absent \/ d.age = Absent THEN T_NA ELSE Strip(d.age),
     KTC_Value |-> IF d.value = Absent THEN <<"0">> ELSE Strip(d.value)]

\* the inner for loop over player_divs: records of the divs that parse, in order
RECURSIVE PageRecords(_)
PageRecords(divs) ==
    IF divs = <<>> THEN <<>>
    ELSE IF DivRaises(Head(divs)) THEN PageRecords(Tail(divs))
         ELSE <<DivRecord(Head(divs))>> \o PageRecords(Tail(divs))

\* the divs of the small sample site (rank 0: the rank plays no part there)
SampleDivs ==
    { Div(0, T_AlBo, T_WR, T_Age241, T_9500),
      Div(0, T_ALBO, T_RB, T_Age30, T_1200),
      Div(0, T_Cy, Absent, Absent, T_abc),
      Div(0, <<" ">>, T_WR, T_NA, Absent),
      Div(0, NoAnchor, T_WR, T_Age30, T_1200) }

\* the pages the sample site may answer with: one short page
SamplePages ==
    [p \in 0..(CallMaxPages - 1) |->
        IF p = 0 THEN SeqsUpTo(SampleDivs, MaxKtc) ELSE {<<>>}]

\* the pages of a full-size site: page p holds ranks p*PageSize+1 ...
SiteDiv(p, k, good) ==
    Div(p * PageSize + k, IF good THEN T_Al ELSE NoAnchor, T_WR, T_Age30, <<"7">>)
FullPage(p) == [k \in 1..PageSize |-> SiteDiv(p, k, TRUE)]
FullPageOneBad(p) == [k \in 1..PageSize |-> SiteDiv(p, k, k # 2)]
ShortPage(p) == [k \in 1..(PageSize - 1) |-> SiteDiv(p, k, k # 1)]
SitePages ==
    [p \in 0..(CallMaxPages - 1) |->
        {FullPage(p), FullPageOneBad(p), ShortPage(p), <<>>}]

\* ----------------------------------------------------------------- Matcher

\* normalize_name: (first token, last token or "") of the stripped,
\* lower-cased name; parts[0] raises IndexError when there is no token
normalize_name(name) ==
    LET parts == Split(Lower(Strip(name)))
    IN  IF parts = <<>>
        THEN [raised |-> TRUE, key |-> <<>>]
        ELSE [raised |-> FALSE,
              key |-> <<parts[1], IF Len(parts) > 1 THEN parts[Len(parts)] ELSE <<>>>>]

\* a dict as the sequence of its (key, value) items
HasKey(map, key) == \E k \in 1..Len(map) : map[k].key = key
Lookup(map, key) == map[CHOOSE k \in 1..Len(map) : map[k].key = key].val

\* d[key] = val
DictSet(map, key, val) ==
    IF HasKey(map, key)
    THEN [k \in 1..Len(map) |-> IF map[k].key = key THEN [key |-> key, val |-> val]
                                ELSE map[k]]
    ELSE Append(map, [key |-> key, val |-> val])

\* does the dict comprehension raise (normalize_name of some row's Name)?
NameMapRaises(df) == \E k \in 1..Len(df) : normalize_name(df[k].Name).raised

\* ktc_name_map = {normalize_name(row["Name"]): row for row in ktc_df}
RECURSIVE ktc_name_map_of(_)
ktc_name_map_of(df) ==
    IF df = <<>> THEN <<>>
    ELSE LET row == df[Len(df)]
         IN  DictSet(ktc_name_map_of(SubSeq(df, 1, Len(df) - 1)),
                     normalize_name(row.Name).key, row)

\* the scores the similarity routine may give a candidate
ScoreSet == {0, FuzzyCutoff, FuzzyCutoff + 1}

Names(df) == {df[k].Name : k \in 1..Len(df)}

SeqMax(S) == CHOOSE x \in S : \A y \in S : y <= x
SeqMin(S) == CHOOSE x \in S : \A y \in S : x <= y

\* process.extractOne(p_name, choices) under the scoring sc (name -> score):
\* the first choice of the highest score
extractOne(choices, sc) ==
    LET best == SeqMax({sc[choices[k]] : k \in 1..Len(choices)})
        at == SeqMin({k \in 1..Len(choices) : sc[choices[k]] = best})
    IN  [name |-> choices[at], score |-> best]

\* mutant: a score of exactly 80 is accepted
FuzzyAcceptAtCutoff(df, hit) ==
    IF hit.score # 0 /\ hit.score >= FuzzyCutoff
    THEN <<df[SeqMin({k \in 1..Len(df) : df[k].Name = hit.name})]>>
    ELSE <<>>

\* ktc_df[ktc_df["Name"] == best_match_name].iloc[0] if score > 80 else None
FuzzyAccept(df, hit) ==
    IF hit.score # 0 /\ hit.score > FuzzyCutoff
    THEN <<df[SeqMin({k \in 1..Len(df) : df[k].Name = hit.name})]>>
    ELSE <<>>

\* the row appended for a player: best_match is <<record>> or <<>> (None)
MatchRow(p_name, best_match) ==
    IF best_match # <<>>
    THEN [Player |-> p_name,
          KTC_Name |-> best_match[1].Name,
          Position |-> best_match[1].Position,
          KTC_Value |-> best_match[1].KTC_Value,
          Age |-> best_match[1].Age]
    ELSE [Player |-> p_name, KTC_Name |-> T_NoMatch,
          Position |-> None, KTC_Value |-> None, Age |-> None]

\* -------------------------------------------------------------- Aggregator

RECURSIVE SeqSum(_)
SeqSum(s) == IF s = <<>> THEN 0 ELSE Head(s) + SeqSum(Tail(s))

\* mutant: the mean over the entries that have a number
MeanOfNonZero(col) ==
    [sum |-> SeqSum(col), n |-> Cardinality({k \in 1..Len(col) : col[k] # 0})]

\* Series.mean(): the sum over the count (NaN for an empty column: n = 0)
Mean(col) == [sum |-> SeqSum(col), n |-> Len(col)]

\* mean > k and mean < k; both are False for NaN
MeanGT(m, k) == m.n > 0 /\ m.sum > k * Scale * m.n
MeanLT(m, k) == m.n > 0 /\ m.sum < k * Scale * m.n

\* mutant: a total of exactly 110000 already makes a Contender
ClassifyLabelInclusive(total_ktc, avg_age) ==
    IF total_ktc >= ContenderValue * Scale /\ MeanGT(avg_age, ContenderAge)
    THEN "Contender"
    ELSE IF total_ktc < RebuildValue * Scale /\ MeanLT(avg_age, RebuildAge)
         THEN "Rebuild"
         ELSE "Tweener"

\* the thresholds of classify_team
ClassifyLabel(total_ktc, avg_age) ==
    IF total_ktc > ContenderValue * Scale /\ MeanGT(avg_age, ContenderAge)
    THEN "Contender"
    ELSE IF total_ktc < RebuildValue * Scale /\ MeanLT(avg_age, RebuildAge)
         THEN "Rebuild"
         ELSE "Tweener"

ValueColumn(rows) == [k \in 1..Len(rows) |-> safe_float(rows[k].KTC_Value)]
AgeColumn(rows) == [k \in 1..Len(rows) |-> parse_age(rows[k].Age)]

\* ------------------------------------------------------------------- state

VARIABLES
    pc,                   \* where the script is: idle, the step to run, done, error, stopped
    cachePM,              \* st.cache_data holds get_sleeper_player_map's result
    cacheKTC,             \* st.cache_data of the scrape: <<>> or <<DataFrame>>
    requests,             \* the HTTP requests this run has issued, in order
    errors,               \* how many st.error messages this run has shown
    err,                  \* the exception (or input check) behind the message
    rendered,             \* what this run has displayed, in order
    users_status,         \* u_resp: the status of the /users response
    rosters_df,           \* parse_rosters_into_dataframe's rows
    max_pages,            \* the scrape's max_pages argument
    page_num,             \* the scrape's loop variable
    all_players,          \* the scrape's accumulator
    pages,                \* the player_divs of each page fetched (history)
    ktc_df,               \* the valuation list
    roster_players,       \* the names of the user's players
    ktc_name_map,         \* NormalizedKey -> valuation record
    p_idx,                \* the matching loop's position in roster_players
    your_team_value_data, \* the rows the matching loop has appended
    matchLog,             \* per row: "exact" or "fuzzy", the branch it came from (history)
    scores,               \* the scores of the latest extractOne call (history)
    team_value_df,        \* the rows of the team table
    Value_Numeric,        \* its Value_Numeric column
    Age_Numeric,          \* its Age_Numeric column
    ageColumn,            \* whether the table has an Age_Numeric column
    total_val,            \* the displayed total
    label,                \* the contention status
    class_avg,            \* avg_age inside classify_team
    mean_age              \* the displayed average age

fetchVars == <<requests, users_status, rosters_df>>
scrapeVars == <<max_pages, page_num, all_players, pages, ktc_df>>
matchVars == <<roster_players, ktc_name_map, p_idx, your_team_value_data, matchLog, scores>>
aggVars == <<team_value_df, Value_Numeric, Age_Numeric, ageColumn, total_val,
             label, class_avg, mean_age>>
cacheVars == <<cachePM, cacheKTC>>
vars == <<pc, cacheVars, errors, err, rendered, fetchVars, scrapeVars, matchVars, aggVars>>

Outcomes == {"ok", "http", "net"}
NaN == [sum |-> 0, n |-> 0]

Request(what, page, outcome) == [what |-> what, page |-> page, outcome |-> outcome]

\* the exception a failed request ends in: requests.get raises on a network
\* failure, raise_for_status on an HTTP error status
ErrorOf(outcome) == IF outcome = "net" THEN "ConnectionError" ELSE "HTTPError"

\* except Exception as e: st.error(...)
Raise(kind) ==
    /\ pc' = "error"
    /\ err' = kind
    /\ errors' = errors + 1
    /\ UNCHANGED rendered

\* the state of a run that has not started
FreshRun ==
    /\ requests = <<>>
    /\ errors = 0
    /\ err = "none"
    /\ rendered = <<>>
    /\ users_status = "none"
    /\ rosters_df = <<>>
    /\ page_num = 0
    /\ all_players = <<>>
    /\ pages = <<>>
    /\ ktc_df = <<>>
    /\ roster_players = <<>>
    /\ ktc_name_map = <<>>
    /\ p_idx = 1
    /\ your_team_value_data = <<>>
    /\ matchLog = <<>>
    /\ scores = <<>>
    /\ team_value_df = <<>>
    /\ Value_Numeric = <<>>
    /\ Age_Numeric = <<>>
    /\ ageColumn = FALSE
    /\ total_val = 0
    /\ label = "none"
    /\ class_avg = NaN
    /\ mean_age = NaN

Init ==
    /\ pc = "idle"
    /\ cachePM = FALSE
    /\ cacheKTC = <<>>
    /\ max_pages = CallMaxPages
    /\ FreshRun

\* ---------------------------------------------------------------- the run

\* st.button: the script reruns from the top; both inputs must be filled in
Click ==
    /\ pc \in {"idle", "done", "error", "stopped"}
    /\ \E filled \in BOOLEAN :
        /\ pc' = IF filled THEN "player_map" ELSE "stopped"
        /\ errors' = IF filled THEN 0 ELSE 1
        /\ err' = IF filled THEN "none" ELSE "input"
    /\ requests' = <<>>
    /\ rendered' = <<>>
    /\ users_status' = "none"
    /\ rosters_df' = <<>>
    /\ page_num' = 0
    /\ all_players' = <<>>
    /\ pages' = <<>>
    /\ ktc_df' = <<>>
    /\ roster_players' = <<>>
    /\ ktc_name_map' = <<>>
    /\ p_idx' = 1
    /\ your_team_value_data' = <<>>
    /\ matchLog' = <<>>
    /\ scores' = <<>>
    /\ team_value_df' = <<>>
    /\ Value_Numeric' = <<>>
    /\ Age_Numeric' = <<>>
    /\ ageColumn' = FALSE
    /\ total_val' = 0
    /\ label' = "none"
    /\ class_avg' = NaN
    /\ mean_age' = NaN
    /\ UNCHANGED <<cacheVars, max_pages>>

\* player_map = get_sleeper_player_map(), served from the cache
PlayerMapCached ==
    /\ pc = "player_map"
    /\ cachePM
    /\ pc' = "user_id"
    /\ UNCHANGED <<cacheVars, errors, err, rendered, fetchVars, scrapeVars, matchVars, aggVars>>

\* player_map = get_sleeper_player_map(), fetched; a failure is not cached
PlayerMapFetch ==
    /\ pc = "player_map"
    /\ ~cachePM
    /\ \E o \in Outcomes :
        /\ requests' = Append(requests, Request("players", 0, o))
        /\ IF o = "ok"
           THEN /\ cachePM' = TRUE
                /\ pc' = "user_id"
                /\ UNCHANGED <<errors, err, rendered>>
           ELSE /\ Raise(ErrorOf(o))
                /\ UNCHANGED cachePM
    /\ UNCHANGED <<cacheKTC, users_status, rosters_df, scrapeVars, matchVars, aggVars>>

\* user_id = get_sleeper_user_id(username)
GetUserId ==
    /\ pc = "user_id"
    /\ \E o \in Outcomes :
        /\ requests' = Append(requests, Request("user", 0, o))
        /\ IF o = "ok"
           THEN pc' = "league_users" /\ UNCHANGED <<errors, err, rendered>>
           ELSE Raise(ErrorOf(o))
    /\ UNCHANGED <<cacheVars, users_status, rosters_df, scrapeVars, matchVars, aggVars>>

\* mutant: a failed /users request is swallowed and the run goes on
LeagueUsersNoAbort ==
    /\ pc = "league_users"
    /\ \E o \in Outcomes :
        /\ requests' = Append(requests, Request("users", 0, o))
        /\ users_status' = o
        /\ pc' = "league_rosters"
        /\ UNCHANGED <<errors, err, rendered>>
    /\ UNCHANGED <<cacheVars, rosters_df, scrapeVars, matchVars, aggVars>>

\* get_sleeper_league_data: u_resp = requests.get(users_url)
LeagueUsers ==
    /\ pc = "league_users"
    /\ \E o \in Outcomes :
        /\ requests' = Append(requests, Request("users", 0, o))
        /\ IF o = "net"
           THEN Raise(ErrorOf(o)) /\ UNCHANGED users_status
           ELSE /\ users_status' = o
                /\ pc' = "league_rosters"
                /\ UNCHANGED <<errors, err, rendered>>
    /\ UNCHANGED <<cacheVars, rosters_df, scrapeVars, matchVars, aggVars>>

\* r_resp = requests.get(rosters_url), then both raise_for_status calls, the
\* two .json() calls and parse_rosters_into_dataframe
LeagueRosters ==
    /\ pc = "league_rosters"
    /\ \E o \in Outcomes, rosters_data \in LeagueSet :
        /\ requests' = Append(requests, Request("rosters", 0, o))
        /\ IF o = "net"
           THEN Raise(ErrorOf(o)) /\ UNCHANGED rosters_df
           ELSE IF users_status # "ok" \/ o # "ok"
                THEN Raise("HTTPError") /\ UNCHANGED rosters_df
                ELSE /\ rosters_df' = parse_rosters_into_dataframe(
                                          UsersData, rosters_data, get_sleeper_player_map)
                     /\ pc' = "ktc"
                     /\ UNCHANGED <<errors, err, rendered>>
    /\ UNCHANGED <<cacheVars, users_status, scrapeVars, matchVars, aggVars>>

\* ---------------------------------------------------------------- the scrape

\* all_players after the page's divs: nothing is appended for an empty page
\* (break), the records that parse otherwise
Accumulate(players, divs) ==
    IF divs = <<>> THEN players ELSE players \o PageRecords(divs)

\* mutant: a short page does not end the loop
ScrapeStopsOnEmptyOnly(divs, page, maxp) ==
    \/ divs = <<>>
    \/ page + 1 >= maxp

\* does the for loop end after this page?  "if not player_divs: break",
\* "if len(player_divs) < 50: break", or range(max_pages) is used up
ScrapeStops(divs, page, maxp) ==
    \/ divs = <<>>
    \/ Len(divs) < PageSize
    \/ page + 1 >= maxp

\* ktc_df = get_all_ktc_players_paginated(max_pages), served from the cache
KtcCached ==
    /\ pc = "ktc"
    /\ cacheKTC # <<>>
    /\ ktc_df' = cacheKTC[1]
    /\ pc' = "render"
    /\ UNCHANGED <<cacheVars, errors, err, rendered, fetchVars, max_pages, page_num,
                   all_players, pages, matchVars, aggVars>>

\* the call of get_all_ktc_players_paginated: all_players = [], range(max_pages)
KtcStart ==
    /\ pc = "ktc"
    /\ cacheKTC = <<>>
    /\ page_num' = 0
    /\ all_players' = <<>>
    /\ IF max_pages = 0
       THEN /\ ktc_df' = <<>>
            /\ cacheKTC' = <<(<<>>)>>
            /\ pc' = "render"
       ELSE /\ pc' = "ktc_page"
            /\ UNCHANGED <<ktc_df, cacheKTC>>
    /\ UNCHANGED <<cachePM, errors, err, rendered, fetchVars, max_pages, pages,
                   matchVars, aggVars>>

\* one iteration of the page loop: the request, raise_for_status, the divs,
\* the records, the loop's exit; the return caches the DataFrame.  Pages[p]
\* is the set of answers the site may give for page p.
KtcFetchPage(Pages) ==
    /\ pc = "ktc_page"
    /\ \E o \in Outcomes, divs \in Pages[page_num] :
        /\ requests' = Append(requests, Request("ktc", page_num, o))
        /\ IF o # "ok"
           THEN /\ Raise(ErrorOf(o))
                /\ UNCHANGED <<cacheKTC, page_num, all_players, pages, ktc_df>>
           ELSE /\ pages' = Append(pages, divs)
                /\ all_players' = Accumulate(all_players, divs)
                /\ UNCHANGED <<errors, err, rendered>>
                /\ IF ScrapeStops(divs, page_num, max_pages)
                   THEN /\ ktc_df' = all_players'
                        /\ cacheKTC' = <<all_players'>>
                        /\ pc' = "render"
                        /\ UNCHANGED page_num
                   ELSE /\ page_num' = page_num + 1
                        /\ UNCHANGED <<pc, ktc_df, cacheKTC>>
    /\ UNCHANGED <<cachePM, users_status, rosters_df, max_pages, matchVars, aggVars>>

\* ------------------------------------------------------------------ the tabs

RECURSIVE Flatten(_)
Flatten(lists) == IF lists = <<>> THEN <<>> ELSE Head(lists) \o Flatten(Tail(lists))

IsMine(row) == row.Owner = Username

\* my_roster = rosters_df[rosters_df["Owner"] == username] (a DataFrame built
\* from no rows has no "Owner" column: KeyError), the League and Keep Trade
\* Cut tabs, then the Team tab up to roster_players
Render ==
    /\ pc = "render"
    /\ IF rosters_df = <<>>
       THEN /\ Raise("KeyError")
            /\ UNCHANGED roster_players
       ELSE LET my_roster == SelectSeq(rosters_df, IsMine)
            IN  /\ rendered' = rendered \o <<"league_table", "ktc_table">> \o
                        (IF my_roster = <<>> THEN <<"warning">> ELSE <<"roster_table">>)
                /\ roster_players' =
                        Flatten([k \in 1..Len(my_roster) |-> my_roster[k].Players])
                /\ pc' = IF my_roster = <<>> THEN "done" ELSE "name_map"
                /\ UNCHANGED <<errors, err>>
    /\ UNCHANGED <<cacheVars, fetchVars, scrapeVars, ktc_name_map, p_idx,
                   your_team_value_data, matchLog, scores, aggVars>>

\* ktc_name_map = {normalize_name(row["Name"]): row ...}
BuildNameMap ==
    /\ pc = "name_map"
    /\ IF NameMapRaises(ktc_df)
       THEN Raise("IndexError") /\ UNCHANGED ktc_name_map
       ELSE /\ ktc_name_map' = ktc_name_map_of(ktc_df)
            /\ pc' = "match"
            /\ UNCHANGED <<errors, err, rendered>>
    /\ UNCHANGED <<cacheVars, fetchVars, scrapeVars, roster_players, p_idx,
                   your_team_value_data, matchLog, scores, aggVars>>

\* mutant: the exact-key branch is never taken
ExactHitNever(map, key) == FALSE

\* if (p_first, p_last) in ktc_name_map
ExactHit(map, key) == HasKey(map, key)

\* mutant: a player without a match gets no row
AppendRowMatchedOnly(rows, p_name, best_match) ==
    IF best_match = <<>> THEN rows ELSE Append(rows, MatchRow(p_name, best_match))

\* the two appends of the loop body: the matched row or the No Match row
AppendRow(rows, p_name, best_match) == Append(rows, MatchRow(p_name, best_match))

\* one iteration of "for p_name in roster_players"
MatchPlayer ==
    /\ pc = "match"
    /\ p_idx <= Len(roster_players)
    /\ LET p_name == roster_players[p_idx]
           norm == normalize_name(p_name)
       IN  IF norm.raised
           THEN Raise("IndexError") /\ UNCHANGED <<p_idx, your_team_value_data, matchLog, scores>>
           ELSE IF ExactHit(ktc_name_map, norm.key)
           THEN /\ your_team_value_data' =
                       AppendRow(your_team_value_data, p_name,
                                 <<Lookup(ktc_name_map, norm.key)>>)
                /\ matchLog' = Append(matchLog, "exact")
                /\ scores' = <<>>
                /\ p_idx' = p_idx + 1
                /\ UNCHANGED <<pc, errors, err, rendered>>
           ELSE IF ktc_df = <<>>
           \* ktc_df["Name"]: the DataFrame of no records has no columns
           THEN Raise("KeyError") /\ UNCHANGED <<p_idx, your_team_value_data, matchLog, scores>>
           ELSE \E sc \in [Names(ktc_df) -> ScoreSet] :
                   LET hit == extractOne([k \in 1..Len(ktc_df) |-> ktc_df[k].Name], sc)
                   IN  /\ your_team_value_data' =
                              AppendRow(your_team_value_data, p_name,
                                        FuzzyAccept(ktc_df, hit))
                       /\ matchLog' = Append(matchLog, "fuzzy")
                       /\ scores' = sc
                       /\ p_idx' = p_idx + 1
                       /\ UNCHANGED <<pc, errors, err, rendered>>
    /\ UNCHANGED <<cacheVars, fetchVars, scrapeVars, roster_players, ktc_name_map, aggVars>>

\* ----------------------------------------------------------- the team table

\* team_value_df = pd.DataFrame(your_team_value_data); the Value_Numeric
\* column (a DataFrame of no rows has no "KTC_Value" column: KeyError); the
\* table and the total are displayed
Aggregate ==
    /\ pc = "match"
    /\ p_idx > Len(roster_players)
    /\ IF your_team_value_data = <<>>
       THEN /\ Raise("KeyError")
            /\ UNCHANGED <<team_value_df, Value_Numeric, total_val>>
       ELSE /\ team_value_df' = your_team_value_data
            /\ Value_Numeric' = ValueColumn(your_team_value_data)
            /\ total_val' = SeqSum(Value_Numeric')
            /\ rendered' = rendered \o <<"team_table", "total_value">>
            /\ pc' = "classify"
            /\ UNCHANGED <<errors, err>>
    /\ UNCHANGED <<cacheVars, fetchVars, scrapeVars, matchVars, Age_Numeric, ageColumn,
                   label, class_avg, mean_age>>

\* classify_team's avg_age: the Age_Numeric column, added when missing
ClassifyAges(rows, hasColumn, column) == IF hasColumn THEN column ELSE AgeColumn(rows)

\* label = classify_team(team_value_df), displayed
Classify ==
    /\ pc = "classify"
    /\ Age_Numeric' = ClassifyAges(team_value_df, ageColumn, Age_Numeric)
    /\ ageColumn' = TRUE
    /\ class_avg' = Mean(Age_Numeric')
    /\ label' = ClassifyLabel(SeqSum(Value_Numeric), class_avg')
    /\ rendered' = Append(rendered, "contention_status")
    /\ pc' = "mean_age"
    /\ UNCHANGED <<cacheVars, errors, err, fetchVars, scrapeVars, matchVars,
                   team_value_df, Value_Numeric, total_val, mean_age>>

\* the Age_Numeric column again, its mean displayed, and the bar chart
ShowMeanAge ==
    /\ pc = "mean_age"
    /\ Age_Numeric' = AgeColumn(team_value_df)
    /\ mean_age' = Mean(Age_Numeric')
    /\ rendered' = rendered \o <<"average_age", "bar_chart">>
    /\ pc' = "done"
    /\ UNCHANGED <<cacheVars, errors, err, fetchVars, scrapeVars, matchVars,
                   team_value_df, Value_Numeric, ageColumn, total_val, label, class_avg>>

Next ==
    \/ Click
    \/ PlayerMapCached
    \/ PlayerMapFetch
    \/ GetUserId
    \/ LeagueUsers
    \/ LeagueRosters
    \/ KtcCached
    \/ KtcStart
    \/ KtcFetchPage(SamplePages)
    \/ Render
    \/ BuildNameMap
    \/ MatchPlayer
    \/ Aggregate
    \/ Classify
    \/ ShowMeanAge

Spec == Init /\ [][Next]_vars

\* --------------------------------------------- the scrape on a full-size site

InitScrape ==
    /\ pc = "ktc"
    /\ cachePM = TRUE
    /\ cacheKTC = <<>>
    /\ max_pages \in 0..CallMaxPages
    /\ FreshRun

NextScrape ==
    \/ KtcStart
    \/ KtcFetchPage(SitePages)

\* the scrape is a loop of a synchronous script: it runs whenever it can
FairScrape == InitScrape /\ [][NextScrape]_vars /\ WF_vars(NextScrape)

\* ------------------------------------------------ classify_team on its own

\* most rows of a table handed to classify_team
MaxFrame == 2

SampleValues ==
    {0, 5000 * Scale, (RebuildValue - 1) * Scale, RebuildValue * Scale,
     ContenderValue * Scale - 5000 * Scale, ContenderValue * Scale,
     ContenderValue * Scale + 1}
SampleAgeTexts ==
    {None, <<"2", "4">>, <<"2", "5">>, <<"2", "3", ".", "9">>, <<"2", "5", ".", "1">>}
SampleAges == {RebuildAge * Scale, (ContenderAge + 1) * Scale}

InitClassify ==
    /\ pc = "classify"
    /\ cachePM = TRUE
    /\ cacheKTC = <<>>
    /\ max_pages = CallMaxPages
    /\ requests = <<>> /\ errors = 0 /\ err = "none" /\ rendered = <<>>
    /\ users_status = "ok" /\ rosters_df = <<>>
    /\ page_num = 0 /\ all_players = <<>> /\ pages = <<>> /\ ktc_df = <<>>
    /\ roster_players = <<>> /\ ktc_name_map = <<>> /\ p_idx = 1
    /\ your_team_value_data = <<>> /\ matchLog = <<>> /\ scores = <<>>
    /\ \E n \in 0..MaxFrame :
        /\ team_value_df \in [1..n -> {MatchRow(T_Cy, <<[Rank |-> 0, Name |-> T_Cy,
                                  Position |-> T_WR, KTC_Value |-> <<"0">>, Age |-> a]>>)
                                       : a \in SampleAgeTexts}]
        /\ Value_Numeric \in [1..n -> SampleValues]
        /\ ageColumn \in BOOLEAN
        /\ Age_Numeric \in IF ageColumn THEN [1..n -> SampleAges] ELSE {<<>>}
    /\ total_val = SeqSum(Value_Numeric)
    /\ label = "none" /\ class_avg = NaN /\ mean_age = NaN

NextClassify == Classify

SpecClassify == InitClassify /\ [][NextClassify]_vars

\* ------------------------------------------------------------------ claims

\* the run has left the matching loop by exhausting roster_players
LoopCompleted ==
    \/ pc \in {"classify", "mean_age"}
    \/ pc = "match" /\ p_idx > Len(roster_players)
    \/ pc = "done" /\ roster_players # <<>>

IsNoMatchRow(row) ==
    /\ row.KTC_Name = T_NoMatch
    /\ row.Position = None
    /\ row.KTC_Value = None
    /\ row.Age = None

IsRowOf(row, rec) ==
    /\ row.KTC_Name = rec.Name
    /\ row.Position = rec.Position
    /\ row.KTC_Value = rec.KTC_Value
    /\ row.Age = rec.Age

\* C1: the rows appended so far are the first roster players, one row each
\* and in roster order; when the loop has completed there is exactly one row
\* per roster player.
C1_OneRowPerPlayer ==
    /\ Len(your_team_value_data) <= Len(roster_players)
    /\ \A k \in 1..Len(your_team_value_data) :
          your_team_value_data[k].Player = roster_players[k]
    /\ LoopCompleted => Len(your_team_value_data) = Len(roster_players)

\* a completed loop over two players: one matched exactly, one not matched
C1_Witness ==
    /\ pc = "done"
    /\ Len(roster_players) = 2
    /\ Len(your_team_value_data) = 2
    /\ matchLog[1] = "exact"
    /\ matchLog[2] = "fuzzy"
    /\ IsNoMatchRow(your_team_value_data[2])

\* C2: a row whose player's NormalizedKey is in the valuation mapping was
\* matched without the similarity routine, and carries the record stored
\* under that key.
C2_ExactHitSkipsFuzzy ==
    \A k \in 1..Len(your_team_value_data) :
        LET key == normalize_name(roster_players[k]).key
        IN  \A e \in 1..Len(ktc_name_map) :
                ktc_name_map[e].key = key =>
                    /\ matchLog[k] = "exact"
                    /\ IsRowOf(your_team_value_data[k], ktc_name_map[e].val)

\* an exact hit on a key that two valuation records share: the later one
\* is the record stored, and the row carries it
C2_Witness ==
    /\ Len(your_team_value_data) >= 1
    /\ matchLog[1] = "exact"
    /\ Len(ktc_df) = 2
    /\ ktc_df[1].Position # ktc_df[2].Position
    /\ normalize_name(ktc_df[1].Name).key = normalize_name(ktc_df[2].Name).key
    /\ your_team_value_data[1].Position = ktc_df[2].Position

\* C3: a row whose player's NormalizedKey is not in the valuation mapping
\* came from the similarity routine, and is the No Match row or carries a
\* valuation record; the row just appended carries a record of the
\* best-scoring name when the best score exceeds 80, and is the No Match row
\* when the best score is 80 or less.
C3_FuzzyCutoff ==
    \A k \in 1..Len(your_team_value_data) :
        LET key == normalize_name(roster_players[k]).key
            row == your_team_value_data[k]
            best == SeqMax({scores[n] : n \in Names(ktc_df)})
        IN  (\A e \in 1..Len(ktc_name_map) : ktc_name_map[e].key # key) =>
                /\ matchLog[k] = "fuzzy"
                /\ \/ IsNoMatchRow(row)
                   \/ \E r \in 1..Len(ktc_df) : IsRowOf(row, ktc_df[r])
                /\ k = Len(your_team_value_data) =>
                      IF best > 80
                      THEN \E r \in 1..Len(ktc_df) :
                               /\ scores[ktc_df[r].Name] = best
                               /\ IsRowOf(row, ktc_df[r])
                      ELSE IsNoMatchRow(row)

\* two fuzzy rows: the first accepted, the second, just appended, refused
\* with a best score of exactly 80
C3_Witness ==
    /\ Len(your_team_value_data) = 2
    /\ matchLog[1] = "fuzzy"
    /\ matchLog[2] = "fuzzy"
    /\ ~IsNoMatchRow(your_team_value_data[1])
    /\ SeqMax({scores[n] : n \in Names(ktc_df)}) = 80
    /\ IsNoMatchRow(your_team_value_data[2])

\* a fuzzy row just appended, accepted with a best score of 81
C3_Accepted ==
    /\ Len(your_team_value_data) = 1
    /\ matchLog[1] = "fuzzy"
    /\ SeqMax({scores[n] : n \in Names(ktc_df)}) = 81
    /\ ~IsNoMatchRow(your_team_value_data[1])

\* C4: with an empty valuation list the matching step ends without an error
\* and gives every roster player the No Match row.
C4_EmptyValuationAllNoMatch ==
    (/\ ktc_df = <<>>
     /\ roster_players # <<>>
     /\ \E k \in 1..Len(rendered) : rendered[k] = "roster_table")
    => /\ pc # "error"
       /\ LoopCompleted =>
            /\ Len(your_team_value_data) = Len(roster_players)
            /\ \A k \in 1..Len(your_team_value_data) :
                  /\ your_team_value_data[k].Player = roster_players[k]
                  /\ IsNoMatchRow(your_team_value_data[k])

\* C5: key construction never fails: no run ends in the IndexError that
\* normalize_name raises for a name without a token.
C5_NormalizerTotal == ~(pc = "error" /\ err = "IndexError")

\* C6: classify_team's label for a total and an average age: Contender iff
\* total > 110000 and average > 25, else Rebuild iff total < 90000 and
\* average < 24, else Tweener; a total of exactly 110000 or 90000, or an
\* average of exactly 25 or 24, gives Tweener.
C6_Classification ==
    (pc = "mean_age" /\ Len(Age_Numeric) > 0) =>
        LET total == SeqSum(Value_Numeric)
            sum == SeqSum(Age_Numeric)
            n == Len(Age_Numeric)
        IN  /\ label = IF total > 110000 * Scale /\ sum > 25 * Scale * n
                       THEN "Contender"
                       ELSE IF total < 90000 * Scale /\ sum < 24 * Scale * n
                            THEN "Rebuild"
                            ELSE "Tweener"
            /\ (\/ total \in {110000 * Scale, 90000 * Scale}
                \/ sum \in {25 * Scale * n, 24 * Scale * n}) => label = "Tweener"

\* a total of exactly 110000 with an average age of 26: Tweener
C6_Witness ==
    /\ pc = "mean_age"
    /\ Len(Age_Numeric) = 2
    /\ SeqSum(Value_Numeric) = 110000 * Scale
    /\ SeqSum(Age_Numeric) = 26 * Scale * 2
    /\ label = "Tweener"

\* the numbers of a row: 0 for the No Match row and for unparsable text
RowValue(row) == IF IsNoMatchRow(row) THEN 0 ELSE safe_float(row.KTC_Value)
RowAge(row) == IF IsNoMatchRow(row) THEN 0 ELSE parse_age(row.Age)

\* the rows of the spec's end-to-end example: "9,500" and "24.1 y.o."
\* matched, then a player without a match
IsExampleTeam(rows) ==
    /\ Len(rows) = 2
    /\ ~IsNoMatchRow(rows[1])
    /\ rows[1].KTC_Value = T_9500
    /\ rows[1].Age = T_Age241
    /\ IsNoMatchRow(rows[2])

\* C7: the displayed total is the sum of the rows' values and the displayed
\* average age is the sum of the rows' ages over the number of rows, every
\* row counted; classification used the same average; the example team has
\* total 9500 and average age 12.05.
C7_Aggregates ==
    (pc = "done" /\ your_team_value_data # <<>>) =>
        LET rows == your_team_value_data
            n == Len(rows)
        IN  /\ total_val = SeqSum([k \in 1..n |-> RowValue(rows[k])])
            /\ mean_age.sum = SeqSum([k \in 1..n |-> RowAge(rows[k])])
            /\ mean_age.n = n
            /\ class_avg = mean_age
            /\ IsExampleTeam(rows) =>
                  /\ total_val = 9500 * Scale
                  /\ mean_age.sum * 100 = 1205 * mean_age.n * Scale

\* the example team, displayed
C7_Witness ==
    /\ pc = "done"
    /\ IsExampleTeam(your_team_value_data)
    /\ total_val = 9500 * Scale

\* the entries of the fetched pages, good or not, in page order
AllEntries == Flatten(pages)

\* C8, as first stated: ..., and the list returned holds one record per
\* entry of the fetched pages, in page order.
C8_AsStated ==
    /\ \A k \in 1..Len(requests) : requests[k].what = "ktc" /\ requests[k].page = k - 1
    /\ Len(requests) <= max_pages
    /\ \A k \in 1..(Len(requests) - 1) :
          requests[k].outcome = "ok" /\ Len(pages[k]) >= PageSize
    /\ pc = "render" =>
          /\ Len(ktc_df) = Len(AllEntries)
          /\ \A j \in 1..Len(ktc_df) : ktc_df[j].Rank = AllEntries[j].rank

IsWellFormed(d) == d.name # NoAnchor

\* the scrape issues page requests 0, 1, 2, ... in order, at most max_pages
\* of them, none after a failed request or after a page of fewer than 50
\* entries; the list returned (and cached) is made of the well-formed
\* entries of the fetched pages, in page order
ScrapeSafe ==
    /\ \A k \in 1..Len(requests) : requests[k].what = "ktc" /\ requests[k].page = k - 1
    /\ Len(requests) <= max_pages
    /\ \A k \in 1..(Len(requests) - 1) :
          requests[k].outcome = "ok" /\ Len(pages[k]) >= PageSize
    /\ pc = "render" =>
          LET good == SelectSeq(AllEntries, IsWellFormed)
          IN  /\ Len(ktc_df) = Len(good)
              /\ \A j \in 1..Len(ktc_df) : ktc_df[j] = DivRecord(good[j])
              /\ cacheKTC = <<ktc_df>>

ScrapeEnded == pc \in {"render", "error"}

\* C8 (amended): the scrape requests pages 0, 1, 2, ... in order, at most
\* max_pages of them, none after a failed request or after a page of fewer
\* than 50 entries; it always ends; and the list it returns is made of the
\* well-formed entries of the fetched pages, in page order (an entry whose
\* parsing raises is skipped).
C8_Scrape == []ScrapeSafe /\ <>ScrapeEnded

\* three requests: two full pages, one of them with a malformed entry, then
\* a short page; the list returned lacks the malformed entries
C8_Witness ==
    /\ pc = "render"
    /\ Len(requests) = 3
    /\ Len(pages[1]) = PageSize
    /\ Len(pages[3]) = PageSize - 1
    /\ Len(ktc_df) = Len(AllEntries) - 2

FetchFailed == \E k \in 1..Len(requests) : requests[k].outcome # "ok"

\* C9, as first stated: no request follows a failed one; a run with a failed
\* request that has ended shows one error message and no table.
C9_AsStated ==
    /\ \A k \in 1..(Len(requests) - 1) : requests[k].outcome = "ok"
    /\ (FetchFailed /\ pc = "error") => errors = 1 /\ rendered = <<>>

\* C9 (amended): after a failed request the run issues no request, but for
\* the /rosters request that follows a /users request answered with an HTTP
\* error status; the failed request is not issued again; the run then ends
\* in the error state with one error message and nothing rendered.
C9_AbortOnFetchFailure ==
    FetchFailed =>
        LET last == Len(requests)
            f == SeqMin({k \in 1..last : requests[k].outcome # "ok"})
            usersHttp == requests[f].what = "users" /\ requests[f].outcome = "http"
        IN  /\ \/ f = last /\ pc = "error"
               \/ f = last /\ usersHttp /\ pc = "league_rosters"
               \/ f = last - 1 /\ usersHttp /\ requests[last].what = "rosters"
                    /\ pc = "error"
            /\ \A k \in 1..last :
                  k # f => <<requests[k].what, requests[k].page>>
                               # <<requests[f].what, requests[f].page>>
            /\ pc = "error" =>
                  /\ errors = 1
                  /\ rendered = <<>>
                  /\ err \in {"HTTPError", "ConnectionError"}

\* a /users request answered with an HTTP error, the /rosters request
\* issued all the same, and the run aborted with one message
C9_Witness ==
    /\ pc = "error"
    /\ Len(requests) = 4
    /\ requests[3] = Request("users", 0, "http")
    /\ requests[4].what = "rosters"
    /\ errors = 1

\* C10: a run whose league has rosters ends in the error state only when a
\* request failed.
C10_OnlyFetchFailuresAbort ==
    (pc = "error" /\ rosters_df # <<>>) => FetchFailed

====
